---- MODULE Spec2Model ----
(***************************************************************************)
(* Model of conductor_takehome: the number extractor (extractor.py), the   *)
(* scale phrase detector (scale.py, filters.py) and the command line entry *)
(* (__init__.py).                                                          *)
(*                                                                         *)
(* Text.  A string is a sequence of atoms.  An atom is either one          *)
(* character ("(", "$", "1", " ", ...) or one whole alphabetic run that    *)
(* the regular expressions of the program treat as a unit ("in",           *)
(* "Millions", "amounts", ...).  "nbsp" is U+00A0.  Regular expressions    *)
(* are matched atom by atom, with \s, \d, \b and re.I computed from the    *)
(* atom classes below.                                                     *)
(*                                                                         *)
(* Numbers.  A float is a record [m, e] standing for m * 10^e, kept        *)
(* normalised (m has no trailing zero, zero is [0, 0]), so that record     *)
(* equality is numeric equality.  None is <<>> and a present optional      *)
(* value v is <<v>>; an absent string is "None", an absent phrase is       *)
(* <<"None">>, an absent bbox is <<>>.                                     *)
(*                                                                         *)
(* Geometry.  Coordinates are integers counting tenths of a layout unit.   *)
(***************************************************************************)
EXTENDS Integers, Sequences, FiniteSets, TLC

VARIABLES
    pc,          \* position of the running entry point
    token,       \* parse_number: the argument
    result,      \* parse_number: the returned Optional[float]
    dwords,      \* detect_scale_phrase: the argument, a list of words
    det,         \* detect_scale_phrase: the returned (scale, phrase, bbox)
    entry,       \* the entry point that was called
    args,        \* its arguments
    total_pages, \* len(pdf.pages)
    pdf,         \* the pages read so far, by page number
    page_num,    \* the loop variable of extract_numbers_from_pdf
    hits,        \* the list hits of extract_numbers_from_pdf
    ret,         \* the list returned by extract_numbers_from_pdf
    out,         \* what the entry point hands to its caller or prints
    cword,       \* classify_units_for_word: the argument word
    cline,       \* classify_units_for_word: the argument line_words
    cunits       \* classify_units_for_word: the returned string

pipe == <<entry, args, total_pages, pdf, page_num, hits, ret, out>>

cls == <<cword, cline, cunits>>

vars == <<pc, token, result, dwords, det, pipe, cls>>

----------------------------------------------------------------------------
(* Atom classes *)

DigitAtoms == {"0", "1", "2", "3", "5"}

SpaceAtoms == {" ", "nbsp"}

GroupSepAtoms == {",", "nbsp"}

FootAtoms == {"*"}

IsDigit(a) == a \in DigitAtoms

IsSpace(a) == a \in SpaceAtoms

DigitVal(a) ==
    CASE a = "0" -> 0
      [] a = "1" -> 1
      [] a = "2" -> 2
      [] a = "3" -> 3
      [] a = "5" -> 5

----------------------------------------------------------------------------
(* Floats *)

None == <<>>

\* Only({e(v) : v \in {x}}) is e(x) with x evaluated once, as the value of a
\* local variable is
Only(S) == CHOOSE r \in S : TRUE

Some(v) == <<v>>

RECURSIVE Norm(_)
Norm(v) ==
    IF v.m = 0 THEN [m |-> 0, e |-> 0]
    ELSE IF v.m % 10 = 0
    THEN Only({Norm(w) : w \in {[m |-> v.m \div 10, e |-> v.e + 1]}})
    ELSE v

FromInt(n) == Only({Norm(p) : p \in {[m |-> n, e |-> 0]}})

FNeg(v) == [m |-> 0 - v.m, e |-> v.e]

FMul(a, b) == Only({Norm(p) : p \in {[m |-> a.m * b.m, e |-> a.e + b.e]}})

RECURSIVE Pow10(_)
Pow10(k) == IF k = 0 THEN 1 ELSE 10 * Pow10(k - 1)

RECURSIVE NumDigits(_)
NumDigits(n) == IF n < 10 THEN 1 ELSE 1 + NumDigits(n \div 10)

Abs(n) == IF n < 0 THEN 0 - n ELSE n

Min2(a, b) == IF a < b THEN a ELSE b

\* a < b for two non-negative normalised floats
MagLess(a, b) ==
    IF b.m = 0 THEN FALSE
    ELSE IF a.m = 0 THEN TRUE
    ELSE LET oa == NumDigits(a.m) + a.e
             ob == NumDigits(b.m) + b.e
             lo == Min2(a.e, b.e)
         IN  IF oa # ob THEN oa < ob
             ELSE a.m * Pow10(a.e - lo) < b.m * Pow10(b.e - lo)

FAbs(v) == [m |-> Abs(v.m), e |-> v.e]

FLess(a, b) ==
    IF a.m < 0 /\ b.m >= 0 THEN TRUE
    ELSE IF a.m >= 0 /\ b.m < 0 THEN FALSE
    ELSE IF a.m < 0 THEN MagLess(FAbs(b), FAbs(a))
    ELSE MagLess(a, b)

FGreater(a, b) == FLess(b, a)

----------------------------------------------------------------------------
(* parse_number *)

RECURSIVE SkipWs(_, _)
SkipWs(s, i) ==
    IF i <= Len(s) /\ IsSpace(s[i]) THEN SkipWs(s, i + 1) ELSE i

RECURSIVE SkipWsBack(_, _)
SkipWsBack(s, j) ==
    IF j >= 1 /\ IsSpace(s[j]) THEN SkipWsBack(s, j - 1) ELSE j

strip(s) == SubSeq(s, SkipWs(s, 1), SkipWsBack(s, Len(s)))

AllDigits(x) == \A k \in 1..Len(x) : IsDigit(x[k])

\* \d{1,3}(?:[seps]\d{3})+
IsGrouped(x) ==
    \E h \in 1..3 :
        /\ Len(x) > h
        /\ (Len(x) - h) % 4 = 0
        /\ \A k \in 1..Len(x) :
              IF k > h /\ (k - h) % 4 = 1
              THEN x[k] \in GroupSepAtoms
              ELSE IsDigit(x[k])

\* \.\d+
IsDotDigits(y) == Len(y) >= 2 /\ y[1] = "." /\ AllDigits(Tail(y))

\* (?:\d{1,3}(?:[seps]\d{3})+|\d+)(?:\.\d+)?|(?:\.\d+)
IsNum(n) ==
    \/ \E k \in 1..Len(n) :
          /\ IsGrouped(SubSeq(n, 1, k)) \/ AllDigits(SubSeq(n, 1, k))
          /\ k = Len(n) \/ IsDotDigits(SubSeq(n, k + 1, Len(n)))
    \/ IsDotDigits(n)

RECURSIVE SkipFoot(_, _)
SkipFoot(s, i) ==
    IF i <= Len(s) /\ s[i] \in FootAtoms THEN SkipFoot(s, i + 1) ELSE i

\* \s*(?P<suffix>[%\)]?)(?P<foot>[...]*)\s*$ from position j
NumTail(s, j) ==
    LET q   == SkipWs(s, j)
        has == q <= Len(s) /\ s[q] \in {"%", ")"}
        f   == IF has THEN q + 1 ELSE q
        z   == SkipWs(s, SkipFoot(s, f))
    IN  [ok |-> z = Len(s) + 1, suffix |-> IF has THEN s[q] ELSE ""]

NoMatch == [ok |-> FALSE, prefix |-> "", num |-> <<>>, suffix |-> ""]

\* NUM_RE.match(s): the match is anchored at both ends, the group "num" ends
\* in a digit and nothing after it is a digit, so the groups are unique.
NUM_RE_match(s) ==
    LET p1   == SkipWs(s, 1)
        has  == p1 <= Len(s) /\ s[p1] \in {"$", "("}
        p2   == SkipWs(s, IF has THEN p1 + 1 ELSE p1)
        ends == {e \in p2..Len(s) :
                    /\ IsNum(SubSeq(s, p2, e))
                    /\ NumTail(s, e + 1).ok}
    IN  IF ends = {} THEN NoMatch
        ELSE LET e == CHOOSE x \in ends : TRUE
             IN  [ok |-> TRUE,
                  prefix |-> IF has THEN s[p1] ELSE "",
                  num |-> SubSeq(s, p2, e),
                  suffix |-> NumTail(s, e + 1).suffix]

\* .replace(",", "").replace(NBSP, "").replace(THIN SPACE, "")
StripSeps(n) == SelectSeq(n, LAMBDA a : a \notin GroupSepAtoms)

RECURSIVE DigitsToInt(_)
DigitsToInt(d) ==
    IF d = <<>> THEN 0
    ELSE 10 * DigitsToInt(SubSeq(d, 1, Len(d) - 1)) + DigitVal(d[Len(d)])

\* float(num) for a string of digits with at most one "."
float(n) ==
    LET dots == {k \in 1..Len(n) : n[k] = "."}
        dot  == IF dots = {} THEN Len(n) + 1 ELSE CHOOSE k \in dots : TRUE
        ds   == SelectSeq(n, LAMBDA a : a # ".")
    IN  Norm([m |-> DigitsToInt(ds), e |-> 0 - (Len(n) - Min2(dot, Len(n)))])

\* parse_number without the "%" rejection
parse_number_keeps_percent(tok) ==
    LET s == Only({strip(t) : t \in {tok}})
        m == Only({NUM_RE_match(t) : t \in {s}})
    IN  IF ~m.ok THEN None
        ELSE LET val == float(StripSeps(m.num))
             IN  Some(IF m.prefix = "(" /\ m.suffix = ")" THEN FNeg(val) ELSE val)

\* parse_number negating on the "(" prefix alone
parse_number_negates_open_paren(tok) ==
    LET s == Only({strip(t) : t \in {tok}})
        m == Only({NUM_RE_match(t) : t \in {s}})
    IN  IF ~m.ok THEN None
        ELSE LET val == float(StripSeps(m.num))
                 v2  == IF m.prefix = "(" THEN FNeg(val) ELSE val
             IN  IF m.suffix = "%" THEN None ELSE Some(v2)

parse_number(tok) ==
    LET s == Only({strip(t) : t \in {tok}})
        m == Only({NUM_RE_match(t) : t \in {s}})
    IN  IF ~m.ok THEN None
        ELSE LET val == float(StripSeps(m.num))
                 v2  == IF m.prefix = "(" /\ m.suffix = ")" THEN FNeg(val) ELSE val
             IN  IF m.suffix = "%" THEN None ELSE Some(v2)

----------------------------------------------------------------------------
(* Text of words: classes of atoms, case mapping, word boundaries *)

NonWordAtoms == {"(", ")", "$", "%", ",", ".", "*", " ", "nbsp"}

IsWordAtom(a) == a # "" /\ a \notin NonWordAtoms

\* str.lower()
Lower(a) ==
    CASE a = "Dollars"  -> "dollars"
      [] a = "Millions" -> "millions"
      [] a = "K" -> "k"
      [] a = "M" -> "m"
      [] a = "B" -> "b"
      [] a = "FTE" -> "fte"
      [] a = "End" -> "end"
      [] a = "Strength" -> "strength"
      [] OTHER -> a

\* str.upper()
Upper(a) ==
    CASE Lower(a) = "k" -> "K"
      [] Lower(a) = "m" -> "M"
      [] Lower(a) = "b" -> "B"
      [] Lower(a) = "dollars" -> "DOLLARS"
      [] Lower(a) = "usd" -> "USD"
      [] Lower(a) = "thousands" -> "THOUSANDS"
      [] Lower(a) = "millions" -> "MILLIONS"
      [] Lower(a) = "billions" -> "BILLIONS"
      [] Lower(a) = "amounts" -> "AMOUNTS"
      [] Lower(a) = "values" -> "VALUES"
      [] Lower(a) = "in" -> "IN"
      [] Lower(a) = "of" -> "OF"
      [] Lower(a) = "reported" -> "REPORTED"
      [] Lower(a) = "fte" -> "FTE"
      [] Lower(a) = "x" -> "X"
      [] OTHER -> a

At(t, k) == IF k \in 1..Len(t) THEN t[k] ELSE ""

\* \b between t[i-1] and t[i]
Bnd(t, i) == IsWordAtom(At(t, i - 1)) # IsWordAtom(At(t, i))

IsMag(a) == Lower(a) \in {"thousands", "millions", "billions"}

IsAbbr(a) == Lower(a) \in {"k", "m", "b"}

IsNoun(a) == Lower(a) \in {"amount", "amounts", "figure", "figures", "value", "values"}

IsDollarWord(a) == Lower(a) \in {"dollars", "usd"}

----------------------------------------------------------------------------
(* filters.py: _PATTERNS, each matched at position i of text t.  The result *)
(* is [ok, end, grp]: end is the index of the last atom of the match and    *)
(* grp is group(1).                                                         *)

M(ok, end, grp) == [ok |-> ok, end |-> end, grp |-> grp]

\* \(\s*\$?\s*in\s*(thousands|millions|billions)\s*\)
Pat1(t, i) ==
    LET a == SkipWs(t, i + 1)
        b == SkipWs(t, IF At(t, a) = "$" THEN a + 1 ELSE a)
        c == SkipWs(t, b + 1)
        d == SkipWs(t, c + 1)
    IN  M(/\ At(t, i) = "("
          /\ Lower(At(t, b)) = "in"
          /\ IsMag(At(t, c))
          /\ At(t, d) = ")", d, At(t, c))

\* \b(amounts?|figures?|values?)\s+in\s+(thousands|millions|billions)\b
Pat2(t, i) ==
    LET a == SkipWs(t, i + 1)
        b == SkipWs(t, a + 1)
    IN  M(/\ Bnd(t, i)
          /\ IsNoun(At(t, i))
          /\ a > i + 1
          /\ Lower(At(t, a)) = "in"
          /\ b > a + 1
          /\ IsMag(At(t, b))
          /\ Bnd(t, b + 1), b, At(t, i))

\* \b(?:in|reported in)\s+(thousands|millions|billions)\s+of\s+(?:dollars|usd)\b
Pat3(t, i) ==
    LET short == Lower(At(t, i)) = "in"
        long  == /\ Lower(At(t, i)) = "reported"
                 /\ At(t, i + 1) = " "
                 /\ Lower(At(t, i + 2)) = "in"
        h == IF short THEN i + 1 ELSE i + 3
        a == SkipWs(t, h)
        b == SkipWs(t, a + 1)
        c == SkipWs(t, b + 1)
    IN  M(/\ Bnd(t, i)
          /\ short \/ long
          /\ a > h
          /\ IsMag(At(t, a))
          /\ b > a + 1
          /\ Lower(At(t, b)) = "of"
          /\ c > b + 1
          /\ IsDollarWord(At(t, c))
          /\ Bnd(t, c + 1), c, At(t, a))

\* \(\s*(?:dollars|usd)\s+in\s+(thousands|millions|billions)\s*\)
Pat4(t, i) ==
    LET a == SkipWs(t, i + 1)
        b == SkipWs(t, a + 1)
        c == SkipWs(t, b + 1)
        d == SkipWs(t, c + 1)
    IN  M(/\ At(t, i) = "("
          /\ IsDollarWord(At(t, a))
          /\ b > a + 1
          /\ Lower(At(t, b)) = "in"
          /\ c > b + 1
          /\ IsMag(At(t, c))
          /\ At(t, d) = ")", d, At(t, c))

\* \b(?:dollars|usd)\s+in\s+(thousands|millions|billions)\b
Pat5(t, i) ==
    LET a == SkipWs(t, i + 1)
        b == SkipWs(t, a + 1)
    IN  M(/\ Bnd(t, i)
          /\ IsDollarWord(At(t, i))
          /\ a > i + 1
          /\ Lower(At(t, a)) = "in"
          /\ b > a + 1
          /\ IsMag(At(t, b))
          /\ Bnd(t, b + 1), b, At(t, b))

\* \(\s*\$?\s*(thousands|millions|billions)\s*\)
Pat6(t, i) ==
    LET a == SkipWs(t, i + 1)
        b == SkipWs(t, IF At(t, a) = "$" THEN a + 1 ELSE a)
        c == SkipWs(t, b + 1)
    IN  M(/\ At(t, i) = "("
          /\ IsMag(At(t, b))
          /\ At(t, c) = ")", c, At(t, b))

\* \(\s*\$?\s*(?:in\s+)?(K|M|B)\s*\)
Pat7(t, i) ==
    LET a == SkipWs(t, i + 1)
        b == SkipWs(t, IF At(t, a) = "$" THEN a + 1 ELSE a)
        w == SkipWs(t, b + 1)
        c == IF Lower(At(t, b)) = "in" /\ w > b + 1 THEN w ELSE b
        d == SkipWs(t, c + 1)
    IN  M(/\ At(t, i) = "("
          /\ IsAbbr(At(t, c))
          /\ At(t, d) = ")", d, At(t, c))

NumPatterns == 7

_PATTERNS(k, t, i) ==
    CASE k = 1 -> Pat1(t, i)
      [] k = 2 -> Pat2(t, i)
      [] k = 3 -> Pat3(t, i)
      [] k = 4 -> Pat4(t, i)
      [] k = 5 -> Pat5(t, i)
      [] k = 6 -> Pat6(t, i)
      [] k = 7 -> Pat7(t, i)

SetMin(S) == CHOOSE x \in S : \A y \in S : x <= y

SetMax(S) == CHOOSE x \in S : \A y \in S : x >= y

\* pat.search(text): the leftmost match; start and end are the 0-based
\* half-open offsets m.start() and m.end()
search(k, t) ==
    LET starts == {i \in 1..Len(t) : _PATTERNS(k, t, i).ok}
    IN  IF starts = {} THEN [ok |-> FALSE, start |-> 0, end |-> 0, grp |-> ""]
        ELSE LET i == SetMin(starts)
                 r == _PATTERNS(k, t, i)
             IN  [ok |-> TRUE, start |-> i - 1, end |-> r.end, grp |-> r.grp]

_ABBR(u) ==
    CASE u = "K" -> "thousands"
      [] u = "M" -> "millions"
      [] u = "B" -> "billions"

----------------------------------------------------------------------------
(* scale.py *)

\* round(x / bucket) of Python 3: to nearest, ties to even
PyRound(x, bucket) ==
    LET q == x \div bucket
        r == x % bucket
    IN  IF 2 * r < bucket THEN q
        ELSE IF 2 * r > bucket THEN q + 1
        ELSE IF q % 2 = 0 THEN q ELSE q + 1

Bucket == 100

\* the dict of _lines_by_y as a function from its keys; each value keeps the
\* words in their order in the argument
_lines_by_y(ws) ==
    LET key(w) == PyRound(w.top, Bucket) * Bucket
        keys   == {key(ws[k]) : k \in 1..Len(ws)}
    IN  [y \in keys |-> SelectSeq(ws, LAMBDA w : key(w) = y)]

RECURSIVE JoinText(_)
JoinText(lw) ==
    IF lw = <<>> THEN <<>>
    ELSE IF Len(lw) = 1 THEN lw[1].text
    ELSE JoinText(SubSeq(lw, 1, Len(lw) - 1)) \o <<" ">> \o lw[Len(lw)].text

\* spans[i] = <<start, end>>, 0-based half-open offsets of word i in the text
_line_text_and_spans(lw) ==
    [text  |-> JoinText(lw),
     spans |-> [i \in 1..Len(lw) |->
                  LET before == Len(JoinText(SubSeq(lw, 1, i - 1)))
                      start  == IF i > 1 THEN before + 1 ELSE 0
                  IN  <<start, start + Len(lw[i].text)>>]]

_bbox_for_char_span(lw, spans, start, end) ==
    LET sel == {i \in 1..Len(lw) : spans[i][1] < end /\ spans[i][2] > start}
    IN  IF sel = {} THEN <<>>
        ELSE <<SetMin({lw[i].x0 : i \in sel}), SetMin({lw[i].top : i \in sel}),
               SetMax({lw[i].x1 : i \in sel}), SetMax({lw[i].bottom : i \in sel})>>

NoScale == [scale |-> "None", phrase |-> <<"None">>, bbox |-> <<>>]

\* the body of "for pat in SCALE_PATTERNS" from pattern k on, ts being
\* _line_text_and_spans(lw); NoScale when no pattern matches the line
RECURSIVE MatchLine(_, _, _)
MatchLine(lw, ts, k) ==
    IF k > NumPatterns THEN NoScale
    ELSE Only({ IF ~m.ok THEN MatchLine(lw, ts, k + 1)
                ELSE [scale  |-> IF m.grp # "" /\ Upper(m.grp) \in {"K", "M", "B"}
                                 THEN _ABBR(Upper(m.grp))
                                 ELSE IF m.grp # "" THEN Lower(m.grp) ELSE "None",
                      phrase |-> SubSeq(ts.text, m.start + 1, m.end),
                      bbox   |-> _bbox_for_char_span(lw, ts.spans, m.start, m.end)]
                : m \in {search(k, ts.text)} })

\* one iteration of "for _, line_words in sorted(...)": the match of the
\* first pattern on the line, NoScale when the text is empty or nothing matches
LineMatch(lw) ==
    Only({ IF ts.text = <<>> THEN NoScale ELSE MatchLine(lw, ts, 1)
           : ts \in {_line_text_and_spans(lw)} })

\* the loop over the lines from the bottom of the page up
RECURSIVE ScanLines_bottom_up(_, _)
ScanLines_bottom_up(lines, todo) ==
    IF todo = {} THEN NoScale
    ELSE Only({ IF r # NoScale THEN r ELSE ScanLines_bottom_up(lines, todo \ {y})
                : y \in {SetMax(todo)},
                  r \in {LineMatch(lines[SetMax(todo)])} })

\* the loop over sorted(lines.items()) restricted to the keys in todo
RECURSIVE ScanLines(_, _)
ScanLines(lines, todo) ==
    IF todo = {} THEN NoScale
    ELSE Only({ IF r # NoScale THEN r ELSE ScanLines(lines, todo \ {y})
                : y \in {SetMin(todo)},
                  r \in {LineMatch(lines[SetMin(todo)])} })

detect_scale_phrase(ws) ==
    IF ws = <<>> THEN NoScale
    ELSE Only({ScanLines(lines, DOMAIN lines) : lines \in {_lines_by_y(ws)}})

\* {...}.get((scale or "").lower(), 1.0)
scale_factor(scale) ==
    LET s == IF scale = "None" THEN "" ELSE Lower(scale)
    IN  CASE s = "thousands" -> FromInt(1000)
          [] s = "millions"  -> FromInt(1000000)
          [] s = "billions"  -> FromInt(1000000000)
          [] OTHER -> FromInt(1)

Tolerance == 5

_inside(box, region, tol) ==
    /\ box[1] >= region[1] - tol
    /\ box[3] <= region[3] + tol
    /\ box[2] >= region[2] - tol
    /\ box[4] <= region[4] + tol

WordBox(w) == <<w.x0, w.top, w.x1, w.bottom>>

detect_scale_phrase_in_region(ws, region) ==
    Only({ IF sub = <<>> THEN NoScale ELSE detect_scale_phrase(sub)
           : sub \in {SelectSeq(ws, LAMBDA w : _inside(WordBox(w), region, Tolerance))} })

----------------------------------------------------------------------------
(* extractor.py: unit classification *)

\* HEADCOUNT_PAT matched at position i
RECURSIVE SkipDashWs(_, _)
SkipDashWs(t, k) ==
    IF At(t, k) = "-" \/ IsSpace(At(t, k)) THEN SkipDashWs(t, k + 1) ELSE k

HeadcountAt(t, i) ==
    LET a  == Lower(At(t, i))
        b  == SkipWs(t, i + 1)
        c  == SkipDashWs(t, i + 1)
    IN  /\ Bnd(t, i)
        /\ \/ a = "end" /\ Lower(At(t, b)) = "strength" /\ Bnd(t, b + 1)
           \/ a = "work" /\ Lower(At(t, c)) \in {"year", "years"} /\ Bnd(t, c + 1)
           \/ a = "items" /\ Lower(At(t, b)) = "managed" /\ Bnd(t, b + 1)
           \/ /\ a \in {"workyear", "workyears", "fte", "headcount", "personnel",
                        "personel", "quantity", "issues", "receipts",
                        "requisitions", "contracts", "unit", "units"}
              /\ Bnd(t, i + 1)

HEADCOUNT_PAT_search(t) == \E i \in 1..Len(t) : HeadcountAt(t, i)

\* MONEY_HINT_PAT matched at position i
MoneyAt(t, i) ==
    \/ At(t, i) = "$"
    \/ Bnd(t, i) /\ Lower(At(t, i)) \in {"usd", "dollar", "dollars"} /\ Bnd(t, i + 1)
    \/ Pat7(t, i).ok

MONEY_HINT_PAT_search(t) == \E i \in 1..Len(t) : MoneyAt(t, i)

LeftGap == 20

\* classify_units_for_word taking every word that ends left of x0, the gap of
\* 2.0 ignored
classify_units_for_word_no_gap(word, line_words) ==
    LET x_left == word.x0
    IN  Only({ IF left_text = <<>> THEN "unknown"
               ELSE IF HEADCOUNT_PAT_search(left_text) THEN "people"
               ELSE IF MONEY_HINT_PAT_search(left_text) THEN "money"
               ELSE "unknown"
               : left_text \in {JoinText(SelectSeq(line_words,
                                    LAMBDA w : w.x1 <= x_left))} })

classify_units_for_word(word, line_words) ==
    LET x_left == word.x0
    IN  Only({ IF left_text = <<>> THEN "unknown"
               ELSE IF HEADCOUNT_PAT_search(left_text) THEN "people"
               ELSE IF MONEY_HINT_PAT_search(left_text) THEN "money"
               ELSE "unknown"
               : left_text \in {JoinText(SelectSeq(line_words,
                                    LAMBDA w : w.x1 <= x_left - LeftGap))} })

inside_bbox(box, region) == _inside(box, region, Tolerance)

group_words_by_line(ws) == _lines_by_y(ws)

----------------------------------------------------------------------------
(* extractor.py: extract_numbers_from_pdf *)

NumberHit(page, tok, raw, scaled, bbox, units, sc, table_bbox) ==
    [page_num |-> page, raw_text |-> tok, raw_value |-> raw,
     scaled_value |-> scaled, bbox |-> bbox, units |-> units,
     scale_name |-> sc.scale, scale_phrase |-> sc.phrase,
     scale_bbox |-> sc.bbox, table_bbox |-> table_bbox]

\* tables = page.find_tables() or [], or [] when it raises
FoundTables(pg) == IF pg.raises THEN <<>> ELSE pg.tables

\* table_scales: one (table_bbox, ScaleMatch) per table that has a bbox
TableScales(ws, tables) ==
    LET regions == SelectSeq(tables, LAMBDA t : t # <<>>)
    IN  [i \in 1..Len(regions) |->
            [bbox |-> regions[i], sc |-> detect_scale_phrase_in_region(ws, regions[i])]]

\* ScaleFor falling back to the page-level scale when the table has none
ScaleFor_page_fallback(bbox, table_scales, page_scale) ==
    LET inside == {i \in 1..Len(table_scales) : inside_bbox(bbox, table_scales[i].bbox)}
    IN  IF inside = {} THEN [sc |-> page_scale, table_bbox |-> <<>>]
        ELSE LET i == SetMin(inside)
             IN  [sc |-> IF table_scales[i].sc.scale = "None" THEN page_scale
                         ELSE table_scales[i].sc,
                  table_bbox |-> table_scales[i].bbox]

\* the scale and table of a number: "for tb_bbox, ... in table_scales" with
\* its break, after the page-level defaults
ScaleFor(bbox, table_scales, page_scale) ==
    LET inside == {i \in 1..Len(table_scales) : inside_bbox(bbox, table_scales[i].bbox)}
    IN  IF inside = {} THEN [sc |-> page_scale, table_bbox |-> <<>>]
        ELSE LET i == SetMin(inside)
             IN  [sc |-> table_scales[i].sc, table_bbox |-> table_scales[i].bbox]

\* WordHits applying the factor to headcounts too
WordHits_scales_people(page, word, line_map, table_scales, page_scale) ==
    LET bbox    == WordBox(word)
        y_key   == PyRound(word.top, Bucket) * Bucket
        line_words == IF y_key \in DOMAIN line_map THEN line_map[y_key] ELSE <<word>>
    IN  Only({ IF raw_val = None THEN <<>>
               ELSE LET factor == scale_factor(sel.sc.scale)
                    IN  <<NumberHit(page, word.text, raw_val[1],
                                    FMul(raw_val[1], factor),
                                    bbox, units, sel.sc, sel.table_bbox)>>
               : raw_val \in {parse_number(word.text)},
                 sel \in {ScaleFor(bbox, table_scales, page_scale)},
                 units \in {classify_units_for_word(word, line_words)} })

\* the body of "for word in words": the hits of one word, none or one
WordHits(page, word, line_map, table_scales, page_scale) ==
    LET bbox    == WordBox(word)
        y_key   == PyRound(word.top, Bucket) * Bucket
        line_words == IF y_key \in DOMAIN line_map THEN line_map[y_key] ELSE <<word>>
    IN  Only({ IF raw_val = None THEN <<>>
               ELSE LET factor == scale_factor(sel.sc.scale)
                        apply_factor == IF units # "people" THEN factor ELSE FromInt(1)
                    IN  <<NumberHit(page, word.text, raw_val[1],
                                    FMul(raw_val[1], apply_factor),
                                    bbox, units, sel.sc, sel.table_bbox)>>
               : raw_val \in {parse_number(word.text)},
                 sel \in {ScaleFor(bbox, table_scales, page_scale)},
                 units \in {classify_units_for_word(word, line_words)} })

RECURSIVE WordLoop(_, _, _, _, _, _)
WordLoop(page, ws, k, line_map, table_scales, page_scale) ==
    IF k > Len(ws) THEN <<>>
    ELSE WordHits(page, ws[k], line_map, table_scales, page_scale)
         \o WordLoop(page, ws, k + 1, line_map, table_scales, page_scale)

\* the body of "for page_num in range(start_idx, end_idx + 1)"
PageHits(page, pg) ==
    LET ws  == pg.words
        tables == FoundTables(pg)
    IN  Only({ WordLoop(page, ws, 1, line_map, table_scales, page_scale)
               : line_map \in {group_words_by_line(ws)},
                 table_scales \in {TableScales(ws, tables)},
                 page_scale \in {detect_scale_phrase(ws)} })

\* within_threshold with exclusive bounds
within_threshold_exclusive(hit, a) ==
    IF a.max_scaled # None /\ ~FLess(hit.scaled_value, a.max_scaled[1]) THEN FALSE
    ELSE IF a.min_scaled # None /\ ~FGreater(hit.scaled_value, a.min_scaled[1]) THEN FALSE
    ELSE IF a.max_raw # None /\ ~FLess(hit.raw_value, a.max_raw[1]) THEN FALSE
    ELSE IF a.min_raw # None /\ ~FGreater(hit.raw_value, a.min_raw[1]) THEN FALSE
    ELSE TRUE

within_threshold(hit, a) ==
    IF a.max_scaled # None /\ FGreater(hit.scaled_value, a.max_scaled[1]) THEN FALSE
    ELSE IF a.min_scaled # None /\ FLess(hit.scaled_value, a.min_scaled[1]) THEN FALSE
    ELSE IF a.max_raw # None /\ FGreater(hit.raw_value, a.max_raw[1]) THEN FALSE
    ELSE IF a.min_raw # None /\ FLess(hit.raw_value, a.min_raw[1]) THEN FALSE
    ELSE TRUE

\* sort ascending and reverse: descending, hits of equal key in reverse order
RECURSIVE SortDesc_reversed_ascending(_)
SortDesc_reversed_ascending(hs) ==
    IF hs = <<>> THEN <<>>
    ELSE Only({ LET less == {i \in 1..Len(done) :
                                ~FGreater(done[i].scaled_value, h.scaled_value)}
                    pos  == IF less = {} THEN Len(done) + 1 ELSE SetMin(less)
                IN  SubSeq(done, 1, pos - 1) \o <<h>> \o SubSeq(done, pos, Len(done))
                : h \in {hs[Len(hs)]},
                  done \in {SortDesc_reversed_ascending(SubSeq(hs, 1, Len(hs) - 1))} })

\* list.sort(key=scaled_value, reverse=True): stable, descending
RECURSIVE SortDesc(_)
SortDesc(hs) ==
    IF hs = <<>> THEN <<>>
    ELSE Only({ LET less == {i \in 1..Len(done) :
                                FLess(done[i].scaled_value, h.scaled_value)}
                    pos  == IF less = {} THEN Len(done) + 1 ELSE SetMin(less)
                IN  SubSeq(done, 1, pos - 1) \o <<h>> \o SubSeq(done, pos, Len(done))
                : h \in {hs[Len(hs)]},
                  done \in {SortDesc(SubSeq(hs, 1, Len(hs) - 1))} })

\* FilterAndSort without the sort
FilterAndSort_unsorted(hs, a) == SelectSeq(hs, LAMBDA h : within_threshold(h, a))

FilterAndSort(hs, a) ==
    Only({SortDesc(kept) : kept \in {SelectSeq(hs, LAMBDA h : within_threshold(h, a))}})

Max2(a, b) == IF a > b THEN a ELSE b

start_idx == Max2(1, args.start_page)

end_idx == IF args.end_page = None THEN total_pages ELSE Min2(args.end_page[1], total_pages)

----------------------------------------------------------------------------
(* Specification of the entry points over bounded documents *)

MaxPages == 2

ClsIdle ==
    /\ cword = <<>>
    /\ cline = <<>>
    /\ cunits = "None"

PipeIdle ==
    /\ entry = "none"
    /\ args = <<>>
    /\ total_pages = 0
    /\ pdf = <<>>
    /\ page_num = 0
    /\ hits = <<>>
    /\ ret = <<>>
    /\ out = <<>>

----------------------------------------------------------------------------
(* Documents: the words and tables the layout extractor hands over *)

W(text, x0, top, x1, bottom) ==
    [text |-> text, x0 |-> x0, top |-> top, x1 |-> x1, bottom |-> bottom]

\* the words of one printed line: word k starts at 10 + 40 (k - 1) layout
\* units, is 30 wide and 8 high
MkLine(txts, top) ==
    [k \in 1..Len(txts) |->
        W(txts[k], 100 + 400 * (k - 1), top, 400 * k, top + 80)]

DollarsInMillions == <<<<"(", "Dollars">>, <<"in">>, <<"Millions", ")">>>>

\* what stands above the numbers: nothing; a page heading; a page heading and
\* a caption one line below; a heading of pattern 2 and a caption
Header(h) ==
    CASE h = 1 -> <<>>
      [] h = 2 -> MkLine(DollarsInMillions, 100)
      [] h = 3 -> MkLine(DollarsInMillions, 100)
                  \o MkLine(<<<<"(", "$">>, <<"in">>, <<"k", ")">>>>, 200)
      [] h = 4 -> MkLine(<<<<"amounts">>, <<"in">>, <<"billions">>>>, 100)
                  \o MkLine(<<<<"(", "billions", ")">>>>, 200)

Body(b) ==
    CASE b = 1 -> MkLine(<<<<"x">>, <<"5">>, <<"3", "%">>>>, 300)
                  \o MkLine(<<<<"FTE">>, <<"5">>, <<"(", "2", ")">>>>, 400)
      [] b = 2 -> MkLine(<<<<"usd">>, <<"2">>, <<"2">>>>, 300)

\* the caption and the numbers, the left and right edges exactly 0.5 inside
RegionAll == <<105, 195, 1195, 485>>

\* the second column of the numbers
RegionCol2 == <<500, 300, 800, 480>>

\* as RegionAll, the right edge 0.6 inside the third column
RegionNear == <<100, 195, 1194, 485>>

Tables(t) ==
    CASE t = 1 -> [raises |-> FALSE, tables |-> <<>>]
      [] t = 2 -> [raises |-> TRUE,  tables |-> <<>>]
      [] t = 3 -> [raises |-> FALSE, tables |-> <<RegionAll>>]
      [] t = 4 -> [raises |-> FALSE, tables |-> <<RegionCol2, RegionAll>>]
      [] t = 5 -> [raises |-> FALSE, tables |-> <<RegionNear>>]

MkPage(h, b, t) ==
    [words |-> Header(h) \o Body(b), raises |-> Tables(t).raises, tables |-> Tables(t).tables]

PageChoices ==
    {<<1, 1, 1>>, <<4, 1, 1>>, <<2, 1, 2>>,
     <<3, 1, 3>>, <<3, 1, 4>>, <<3, 1, 5>>, <<3, 2, 1>>}

Pages == {MkPage(c[1], c[2], c[3]) : c \in PageChoices}

PageRanges == {<<1, None>>, <<0, Some(1)>>, <<2, Some(MaxPages + 1)>>}

ScaledBounds == {<<None, None>>, <<Some(FromInt(5)), Some(FromInt(5000))>>}

RawBounds == {<<None, None>>, <<Some(FromInt(2)), Some(FromInt(5))>>}

Args(range, scaled, raw, no_scaling, top) ==
    [start_page |-> range[1], end_page |-> range[2],
     min_scaled |-> scaled[1], max_scaled |-> scaled[2],
     min_raw |-> raw[1], max_raw |-> raw[2],
     no_scaling |-> no_scaling, top |-> top]

Init ==
    /\ pc = "idle"
    /\ token = <<>>
    /\ result = None
    /\ dwords = <<>>
    /\ det = NoScale
    /\ PipeIdle
    /\ ClsIdle

\* the call of extract_numbers_from_pdf up to its loop over the pages
Open(e, a) ==
    /\ pc = "idle"
    /\ entry' = e
    /\ args' = a
    /\ total_pages' \in 0..MaxPages
    /\ page_num' = Max2(1, a.start_page)
    /\ pc' = "pages"
    /\ UNCHANGED <<pdf, hits, ret, out, token, result, dwords, det, cls>>

\* __init__.py: main() called from the command line; it hands start_page,
\* end_page, min_scaled and max_scaled to extract_numbers_from_pdf
main ==
    \E r \in PageRanges, sb \in ScaledBounds, ns \in BOOLEAN, top \in {0, 1} :
        Open("main", Args(r, sb, <<None, None>>, ns, top))

extract_numbers_from_pdf ==
    \E r \in PageRanges, sb \in ScaledBounds, rb \in RawBounds :
        Open("extract_numbers_from_pdf", Args(r, sb, rb, FALSE, 1))

find_largest_number ==
    \E r \in PageRanges, rb \in RawBounds :
        Open("find_largest_number", Args(r, <<None, None>>, rb, FALSE, 1))

\* ReadPage without the try/except: a failing find_tables ends the extraction
ReadPage_raise_propagates ==
    /\ pc = "pages"
    /\ page_num <= end_idx
    /\ \E pg \in Pages :
          /\ pdf' = [q \in DOMAIN pdf \cup {page_num} |->
                        IF q = page_num THEN pg ELSE pdf[q]]
          /\ hits' = IF pg.raises THEN hits ELSE hits \o PageHits(page_num, pg)
          /\ pc' = IF pg.raises THEN "error" ELSE pc
    /\ page_num' = page_num + 1
    /\ UNCHANGED <<entry, args, total_pages, ret, out, token, result, dwords, det, cls>>

\* one iteration of the loop over the pages
ReadPage ==
    /\ pc = "pages"
    /\ page_num <= end_idx
    /\ \E pg \in Pages :
          /\ pdf' = [q \in DOMAIN pdf \cup {page_num} |->
                        IF q = page_num THEN pg ELSE pdf[q]]
          /\ hits' = hits \o PageHits(page_num, pg)
    /\ page_num' = page_num + 1
    /\ UNCHANGED <<pc, entry, args, total_pages, ret, out, token, result, dwords, det, cls>>

\* the end of extract_numbers_from_pdf and what its caller does with the list
Return ==
    /\ pc = "pages"
    /\ page_num > end_idx
    /\ LET filtered_hits == FilterAndSort(hits, args)
       IN  /\ ret' = filtered_hits
           /\ out' = IF entry = "find_largest_number"
                     THEN (IF filtered_hits # <<>> THEN <<filtered_hits[1]>> ELSE <<>>)
                     ELSE IF entry = "main" /\ args.top > 0
                     THEN SubSeq(filtered_hits, 1, Min2(args.top, Len(filtered_hits)))
                     ELSE filtered_hits
    /\ pc' = "done"
    /\ UNCHANGED <<entry, args, total_pages, pdf, page_num, hits, token, result, dwords, det, cls>>

Next ==
    \/ main
    \/ extract_numbers_from_pdf
    \/ find_largest_number
    \/ ReadPage
    \/ Return

Spec == Init /\ [][Next]_vars

----------------------------------------------------------------------------
(* Specification of parse_number over bounded tokens *)

MaxBody == 5

BodyAtoms == {"1", "0", ",", "."}

RECURSIVE SeqsUpTo(_, _)
SeqsUpTo(S, n) ==
    IF n = 0 THEN {<<>>}
    ELSE LET prev == SeqsUpTo(S, n - 1)
         IN  prev \cup {Append(q, a) : q \in {p \in prev : Len(p) = n - 1}, a \in S}

Leads == {<<>>, <<"$">>, <<"(">>, <<"(", "$">>, <<" ", "(">>, <<"x">>}

Trails == {<<>>, <<"%">>, <<")">>, <<"*">>, <<"%", "*">>, <<")", "*", "*">>,
           <<" ", "%">>, <<"%", ")">>, <<")", " ">>}

Tokens == {l \o b \o t : l \in Leads, b \in SeqsUpTo(BodyAtoms, MaxBody), t \in Trails}

InitParse ==
    /\ pc = "parse"
    /\ token \in Tokens
    /\ result = None
    /\ dwords = <<>>
    /\ det = NoScale
    /\ PipeIdle
    /\ ClsIdle

ParseToken ==
    /\ pc = "parse"
    /\ result' = parse_number(token)
    /\ pc' = "parsed"
    /\ UNCHANGED <<token, dwords, det, pipe, cls>>

NextParse == ParseToken

SpecParse == InitParse /\ [][NextParse]_vars

----------------------------------------------------------------------------
(* Specification of detect_scale_phrase over bounded word lists *)

LineTexts ==
    { <<<<"(", "Dollars">>, <<"in">>, <<"Millions", ")">>>>,
      <<<<"amounts">>, <<"in">>, <<"Millions">>>>,
      <<<<"(", "$">>, <<"in">>, <<"thousands", ")">>>>,
      <<<<"(", "M", ")">>, <<"Dollars">>, <<"in">>, <<"billions">>>>,
      <<<<"reported">>, <<"in">>, <<"thousands">>, <<"of">>, <<"usd">>>>,
      <<<<"(", "billions", ")">>>>,
      <<<<"(", "$">>, <<"in">>, <<"k", ")">>>>,
      <<<<"(", "thousands", ")">>, <<"values">>, <<"in">>, <<"billions">>>>,
      <<<<"Dollars">>, <<"in">>>>,
      <<<<"thousands">>>>,
      <<<<"x">>, <<"1", "2">>>>,
      <<<<"x", "in">>, <<"Millions">>, <<"of">>, <<"dollars", "x">>>> }

\* tops of 5.0, 15.0 and 25.0: round() takes them to the keys 0, 20 and 20
Tops == {50, 150, 250}

MaxLines == 2

RECURSIVE ConcatLines(_, _, _)
ConcatLines(f, tp, n) ==
    IF n = 0 THEN <<>>
    ELSE ConcatLines(f, tp, n - 1) \o MkLine(f[n], tp[n])

InitDetect ==
    /\ pc = "detect"
    /\ \E n \in 0..MaxLines :
           \E f \in [1..n -> LineTexts], tp \in [1..n -> Tops] :
               dwords = ConcatLines(f, tp, n)
    /\ det = NoScale
    /\ token = <<>>
    /\ result = None
    /\ PipeIdle
    /\ ClsIdle

Detect ==
    /\ pc = "detect"
    /\ det' = detect_scale_phrase(dwords)
    /\ pc' = "detected"
    /\ UNCHANGED <<dwords, token, result, pipe, cls>>

NextDetect == Detect

SpecDetect == InitDetect /\ [][NextDetect]_vars

----------------------------------------------------------------------------
(* Specification of classify_units_for_word over bounded lines *)

MaxCtx == 2

\* the number being classified: x0 = 100.0, x1 = 130.0
NumberWord == W(<<"5">>, 1000, 100, 1300, 180)

CtxTexts == {<<"FTE">>, <<"end">>, <<"strength">>, <<"usd">>, <<"$">>, <<"x">>}

\* right edges of the other words: 2.0 left of the number's x0, 1.9 left of
\* it, and to the right of the number
CtxRights == {980, 981, 1700}

\* the other words of the line, in extraction order, and the number among them
LineOf(txts, rights, n, k) ==
    LET others == [j \in 1..n |-> W(txts[j], rights[j] - 300, 100, rights[j], 180)]
    IN  SubSeq(others, 1, k - 1) \o <<NumberWord>> \o SubSeq(others, k, n)

InitClassify ==
    /\ pc = "classify"
    /\ cword = NumberWord
    /\ \E n \in 0..MaxCtx :
           \E txts \in [1..n -> CtxTexts], rights \in [1..n -> CtxRights], k \in 1..(n + 1) :
               cline = LineOf(txts, rights, n, k)
    /\ cunits = "None"
    /\ token = <<>>
    /\ result = None
    /\ dwords = <<>>
    /\ det = NoScale
    /\ PipeIdle

Classify ==
    /\ pc = "classify"
    /\ cunits' = classify_units_for_word(cword, cline)
    /\ pc' = "classified"
    /\ UNCHANGED <<cword, cline, token, result, dwords, det, pipe>>

NextClassify == Classify

SpecClassify == InitClassify /\ [][NextClassify]_vars

----------------------------------------------------------------------------
(* Properties *)

Range(q) == {q[i] : i \in 1..Len(q)}

FLeq(a, b) == a = b \/ FLess(a, b)

FactorOf(name) ==
    CASE name = "thousands" -> FromInt(1000)
      [] name = "millions"  -> FromInt(1000000)
      [] name = "billions"  -> FromInt(1000000000)
      [] OTHER -> FromInt(1)

\* C1: every hit, collected or returned, has scaled_value = raw_value *
\* factor(scale_name), factor being 1e3, 1e6, 1e9 or else 1, except that a
\* hit of units "people" has scaled_value = raw_value.
C1_ScaledValue ==
    \A h \in Range(hits) \cup Range(ret) :
        h.scaled_value = IF h.units = "people" THEN h.raw_value
                         ELSE FMul(h.raw_value, FactorOf(h.scale_name))

\* returned: a headcount left unscaled under a table's thousands, an unknown
\* scaled by it, and a money hit scaled by the page's millions
C1_Witness ==
    /\ pc = "done"
    /\ \E h \in Range(ret) : /\ h.units = "people" /\ h.scale_name = "thousands"
                             /\ h.scaled_value = h.raw_value /\ h.raw_value.m # 0
    /\ \E h \in Range(ret) : /\ h.units = "unknown" /\ h.scale_name = "thousands"
                             /\ h.scaled_value = FMul(h.raw_value, FromInt(1000))
    /\ \E h \in Range(ret) : /\ h.units = "money" /\ h.scale_name = "millions"
                             /\ h.scaled_value = FMul(h.raw_value, FromInt(1000000))

Contains(region, box) ==
    /\ region[1] - 5 <= box[1]
    /\ region[2] - 5 <= box[2]
    /\ box[3] <= region[3] + 5
    /\ box[4] <= region[4] + 5

Discovered(pg) == IF pg.raises THEN <<>> ELSE pg.tables

ScaleTriple(h) == [scale |-> h.scale_name, phrase |-> h.scale_phrase, bbox |-> h.scale_bbox]

\* C2: a hit carries the ScaleMatch of the first discovered table whose box
\* contains its bbox within 0.5, and that table as table_bbox, also when that
\* ScaleMatch is none; it carries the page-level ScaleMatch and no table_bbox
\* only when no table contains it.
C2_TablePrecedence ==
    /\ \A h \in Range(hits) : h.page_num \in DOMAIN pdf
    /\ \A q \in DOMAIN pdf :
          LET pg       == pdf[q]
              regs     == Discovered(pg)
              hs       == SelectSeq(hits, LAMBDA h : h.page_num = q)
              First(h) == LET cont == {i \in 1..Len(regs) : Contains(regs[i], h.bbox)}
                          IN  IF cont = {} THEN 0 ELSE SetMin(cont)
          IN  /\ LET page_scale == detect_scale_phrase(pg.words)
                 IN  \A h \in Range(hs) :
                         First(h) = 0 =>
                             h.table_bbox = <<>> /\ ScaleTriple(h) = page_scale
              /\ \A i \in 1..Len(regs) :
                     LET table_scale == detect_scale_phrase_in_region(pg.words, regs[i])
                     IN  \A h \in Range(hs) :
                             First(h) = i =>
                                 h.table_bbox = regs[i] /\ ScaleTriple(h) = table_scale

\* a hit in two tables, the first without a scale, on a page with a scale
C2_Witness ==
    \E h \in Range(hits) :
        /\ h.table_bbox = RegionCol2
        /\ h.scale_name = "None"
        /\ Contains(RegionAll, h.bbox)
        /\ pdf[h.page_num].tables = <<RegionCol2, RegionAll>>
        /\ detect_scale_phrase(pdf[h.page_num].words).scale = "millions"
        /\ detect_scale_phrase_in_region(pdf[h.page_num].words, RegionAll).scale = "thousands"

Magnitudes == {"thousands", "millions", "billions"}

\* C3: whenever detect_scale_phrase returns a phrase, the scale is one of
\* thousands, millions, billions.
C3_ScaleIsMagnitude ==
    (pc = "detected" /\ det.phrase # <<"None">>) => det.scale \in Magnitudes

LineKey(w) == PyRound(w.top, Bucket) * Bucket

LineAt(ws, y) == SelectSeq(ws, LAMBDA w : LineKey(w) = y)

PatternsOn(t) == {k \in 1..NumPatterns : search(k, t).ok}

\* C4: detect_scale_phrase returns the match of the first pattern, in table
\* order, on the first line, in ascending bucket key, on which any pattern
\* matches, and (none, none, none) when no line matches.
C4_FirstLineFirstPattern ==
    pc = "detected" =>
        LET keys  == {LineKey(dwords[i]) : i \in 1..Len(dwords)}
            mkeys == {y \in keys : PatternsOn(JoinText(LineAt(dwords, y))) # {}}
        IN  IF mkeys = {} THEN det = NoScale
            ELSE LET y == CHOOSE a \in mkeys : \A b \in mkeys : a <= b
                     t == JoinText(LineAt(dwords, y))
                     k == CHOOSE a \in PatternsOn(t) : \A b \in PatternsOn(t) : a <= b
                     m == search(k, t)
                 IN  /\ det.phrase = SubSeq(t, m.start + 1, m.end)
                     /\ det.bbox # <<>>
                     /\ \A i \in 1..4 : \E w \in Range(LineAt(dwords, y)) :
                            det.bbox[i] = WordBox(w)[i]

\* two lines with a match, the lower one first in the word list, and on the
\* upper line a later pattern matching to the left of the chosen one
C4_Witness ==
    /\ pc = "detected"
    /\ LET keys  == {LineKey(dwords[i]) : i \in 1..Len(dwords)}
           mkeys == {y \in keys : PatternsOn(JoinText(LineAt(dwords, y))) # {}}
       IN  /\ Cardinality(mkeys) = 2
           /\ LineKey(dwords[1]) = SetMax(mkeys)
           /\ LET t == JoinText(LineAt(dwords, SetMin(mkeys)))
                  k == SetMin(PatternsOn(t))
              IN  /\ \E j \in PatternsOn(t) : j > k /\ search(j, t).start < search(k, t).start
                  /\ det.phrase = SubSeq(t, search(k, t).start + 1, search(k, t).end)

InBounds(h, a) ==
    /\ a.min_scaled = None \/ FLeq(a.min_scaled[1], h.scaled_value)
    /\ a.max_scaled = None \/ FLeq(h.scaled_value, a.max_scaled[1])
    /\ a.min_raw = None \/ FLeq(a.min_raw[1], h.raw_value)
    /\ a.max_raw = None \/ FLeq(h.raw_value, a.max_raw[1])

Count(q, x) == Cardinality({i \in 1..Len(q) : q[i] = x})

\* C5: the returned list is in descending order of scaled_value and holds
\* exactly the hits that passed the filters, each once; find_largest_number
\* returns a hit of maximal scaled_value, or None when the list is empty.
C5_SortedPermutation ==
    pc = "done" =>
        /\ \A i \in 1..(Len(ret) - 1) : FLeq(ret[i + 1].scaled_value, ret[i].scaled_value)
        /\ \A h \in Range(hits) \cup Range(ret) :
              Count(ret, h) = IF InBounds(h, args) THEN Count(hits, h) ELSE 0
        /\ entry = "find_largest_number" =>
              IF ret = <<>> THEN out = <<>>
              ELSE /\ Len(out) = 1
                   /\ out[1] \in Range(ret)
                   /\ \A h \in Range(ret) : FLeq(h.scaled_value, out[1].scaled_value)

\* find_largest_number over hits that were not in order, one of them
\* filtered out, two of them equal
C5_Witness ==
    /\ pc = "done"
    /\ entry = "find_largest_number"
    /\ Len(ret) >= 3
    /\ Len(ret) < Len(hits)
    /\ \E i \in 1..(Len(hits) - 1) : FLess(hits[i].scaled_value, hits[i + 1].scaled_value)
    /\ \E i \in 1..(Len(ret) - 1) : ret[i].scaled_value = ret[i + 1].scaled_value
    /\ out = <<ret[1]>>

\* C6: a hit is returned if and only if it satisfies every supplied bound,
\* the bounds being inclusive and a bound of None imposing nothing.
C6_InclusiveBounds ==
    pc = "done" =>
        LET returned == Range(ret)
        IN  \A h \in Range(hits) : (h \in returned) <=> InBounds(h, args)

\* hits equal to min_scaled and to max_scaled are kept, one below, one above
\* and one outside the raw bounds are dropped
C6_Witness ==
    /\ pc = "done"
    /\ args.min_scaled # None /\ args.min_raw # None
    /\ \E h \in Range(ret) : h.scaled_value = args.min_scaled[1]
    /\ \E h \in Range(ret) : h.scaled_value = args.max_scaled[1]
    /\ \E h \in Range(hits) : FLess(args.max_scaled[1], h.scaled_value) /\ h \notin Range(ret)
    /\ \E h \in Range(hits) : FLess(h.raw_value, args.min_raw[1]) /\ h \notin Range(ret)

HitsOfPage(q) == SelectSeq(hits, LAMBDA h : h.page_num = q)

Parsed(ws) == SelectSeq(ws, LAMBDA w : parse_number(w.text) # None)

\* C7: a page whose table discovery raised yields one hit per numeric word,
\* each without table_bbox and with the page-level ScaleMatch, and the hits of
\* every other page read are those of that page alone.
C7_TableFailureIsLocal ==
    \A q \in DOMAIN pdf :
        LET hs == HitsOfPage(q)
        IN  IF pdf[q].raises
            THEN LET ps         == Parsed(pdf[q].words)
                     page_scale == detect_scale_phrase(pdf[q].words)
                 IN  /\ Len(hs) = Len(ps)
                     /\ \A i \in 1..Len(hs) :
                           /\ hs[i].raw_text = ps[i].text
                           /\ hs[i].table_bbox = <<>>
                           /\ ScaleTriple(hs[i]) = page_scale
            ELSE hs = PageHits(q, pdf[q])

\* the first page raised, the second has a table, both have hits, and the
\* extraction returned
C7_Witness ==
    /\ pc = "done"
    /\ DOMAIN pdf = {1, 2}
    /\ pdf[1].raises /\ Len(HitsOfPage(1)) >= 2
    /\ detect_scale_phrase(pdf[1].words).scale = "millions"
    /\ \E h \in Range(HitsOfPage(2)) : h.table_bbox # <<>>
    /\ Len(ret) = Len(hits)

RECURSIVE DropTrailing(_)
DropTrailing(s) ==
    IF s # <<>> /\ s[Len(s)] \in FootAtoms \cup SpaceAtoms
    THEN DropTrailing(SubSeq(s, 1, Len(s) - 1))
    ELSE s

TrailingPercent(tok) ==
    LET core == DropTrailing(tok)
    IN  core # <<>> /\ core[Len(core)] = "%"

\* C8: parse_number rejects every token that ends in "%", footnote glyphs
\* after it or not, "$" or "(" before the number or not.
C8_PercentRejected ==
    (pc = "parsed" /\ TrailingPercent(token)) => result = None

\* a token "($ or (" number "%" footnote that the grammar accepts
C8_Witness ==
    /\ pc = "parsed"
    /\ TrailingPercent(token)
    /\ token[1] = "("
    /\ token[Len(token)] = "*"
    /\ NUM_RE_match(strip(token)).ok
    /\ result = None

Magnitude(tok) == float(SelectSeq(tok, LAMBDA a : IsDigit(a) \/ a = "."))

Parenthesized(tok) ==
    /\ strip(tok) # <<>>
    /\ strip(tok)[1] = "("
    /\ ")" \in Range(tok)

\* C9: an accepted token yields the negated magnitude exactly when it has
\* both "(" before and ")" after the number, and the magnitude otherwise.
C9_ParenthesesNegate ==
    (pc = "parsed" /\ result # None) =>
        result = Some(IF Parenthesized(token) THEN FNeg(Magnitude(token))
                      ELSE Magnitude(token))

\* "(1,000)" style: grouped, both parentheses, a negative result
C9_Witness ==
    /\ pc = "parsed"
    /\ Parenthesized(token)
    /\ "," \in Range(token)
    /\ result # None
    /\ result[1].m < 0

\* C10: with --no-scaling no hit that main reports has a scale applied.
C10_NoScaling ==
    (pc = "done" /\ entry = "main" /\ args.no_scaling) =>
        \A h \in Range(out) : h.scaled_value = h.raw_value /\ h.scale_name = "None"

\* the words of the line that end at least 2.0 to the left of the number
LeftContext(line, word) == SelectSeq(line, LAMBDA w : w.x1 + 20 <= word.x0)

Without(line, k) == SubSeq(line, 1, k - 1) \o SubSeq(line, k + 1, Len(line))

\* C11: classify_units_for_word answers from the left context alone, the
\* words of the line with x1 <= x0 - 2.0: "people" when its text holds
\* headcount vocabulary, money vocabulary present or not, "money" when it
\* holds money vocabulary only, "unknown" otherwise and when it is empty;
\* taking away a word to the right of the number, or closer than 2.0 to its
\* left edge, leaves the answer as it was.
C11_LeftContextOnly ==
    pc = "classified" =>
        LET ctx       == LeftContext(cline, cword)
            left_text == JoinText(ctx)
        IN  /\ cunits = IF HEADCOUNT_PAT_search(left_text) THEN "people"
                        ELSE IF MONEY_HINT_PAT_search(left_text) THEN "money"
                        ELSE "unknown"
            /\ ctx = <<>> => cunits = "unknown"
            /\ cunits = classify_units_for_word(cword, ctx)
            /\ \A k \in 1..Len(cline) :
                  cline[k].x1 + 20 > cword.x0 =>
                      classify_units_for_word(cword, Without(cline, k)) = cunits

\* money vocabulary exactly 2.0 to the left, headcount vocabulary 1.9 to the
\* left or to the right: the answer is "money"
C11_Witness ==
    /\ pc = "classified"
    /\ cunits = "money"
    /\ \E w \in Range(cline) : w.text = <<"usd">> /\ w.x1 = cword.x0 - 20
    /\ \E w \in Range(cline) : w.text = <<"FTE">> /\ w.x1 > cword.x0 - 20

\* the place of a hit's word in the word list of its page
WordIndex(h) ==
    CHOOSE k \in 1..Len(pdf[h.page_num].words) :
        /\ WordBox(pdf[h.page_num].words[k]) = h.bbox
        /\ pdf[h.page_num].words[k].text = h.raw_text

\* discovery order: by page number, then by place in the page's word list
Discovered_before(a, b) ==
    \/ a.page_num < b.page_num
    \/ a.page_num = b.page_num /\ WordIndex(a) < WordIndex(b)

\* the hits of a second pass over the pages start_idx..q of the same document
RECURSIVE SecondPass(_)
SecondPass(q) ==
    IF q < start_idx THEN <<>>
    ELSE SecondPass(q - 1) \o PageHits(q, pdf[q])

\* C12: returned hits of equal scaled_value stand in discovery order, by
\* ascending page number and then by word order within the page, and a second
\* run over the same pages with the same arguments returns the same list.
C12_TiesInDiscoveryOrder ==
    pc = "done" =>
        /\ \A i, j \in 1..Len(ret) :
              (i < j /\ ret[i].scaled_value = ret[j].scaled_value) =>
                  Discovered_before(ret[i], ret[j])
        /\ ret = FilterAndSort(SecondPass(page_num - 1), args)

\* returned: two hits of equal value from one page, two of equal value from
\* two pages, out of hits that were not in descending order
C12_Witness ==
    /\ pc = "done"
    /\ \E i, j \in 1..Len(ret) :
          /\ i < j /\ ret[i].scaled_value = ret[j].scaled_value
          /\ ret[i].page_num = ret[j].page_num /\ WordIndex(ret[i]) < WordIndex(ret[j])
    /\ \E i, j \in 1..Len(ret) :
          /\ i < j /\ ret[i].scaled_value = ret[j].scaled_value
          /\ ret[i].page_num < ret[j].page_num
    /\ \E i \in 1..(Len(hits) - 1) : FLess(hits[i].scaled_value, hits[i + 1].scaled_value)

====
